---- MODULE Spec2Model ----
(***************************************************************************)
(* Model of src/app.py: the Streamlit financial-document processor.        *)
(*                                                                         *)
(*  - process_document_with_azure : normalisation of the extraction        *)
(*    service's response into (raw_text, structured_data)                  *)
(*  - save_to_database / get_all_records / get_records_count /             *)
(*    prepare_csv_export : the SQLite table document_results and its       *)
(*    flattened CSV projection                                             *)
(*  - the button handlers of the script (process, ask, clear chat, save,   *)
(*    view, export) acting on st.session_state                             *)
(*                                                                         *)
(* Python values are tagged records (field t is the Python type); a dict   *)
(* is an insertion-ordered sequence of <<key, value>> items.               *)
(***************************************************************************)
EXTENDS Integers, Sequences, FiniteSets, TLC

(***************************************************************************)
(* Bounds of the model.                                                    *)
(***************************************************************************)
MaxFields == 2
MaxRecords == 2
MaxChat == 2

(***************************************************************************)
(* Python values.                                                          *)
(***************************************************************************)
PyNone == [t |-> "None"]
PyNum(n) == [t |-> "num", n |-> n]
PyStr(s) == [t |-> "str", s |-> s]
PyDict(items) == [t |-> "dict", items |-> items]
\* An SDK value object (CurrencyValue, AddressValue, date, ...): which of the
\* attributes amount / currency_code it has, and its str() rendering.
PyObj(hasAmount, amount, hasCode, code, repr) ==
    [t |-> "obj", has_amount |-> hasAmount, amount |-> amount,
     has_currency_code |-> hasCode, currency_code |-> code, repr |-> repr]

EmptyDict == PyDict(<<>>)

DictKeys(d) == {d.items[i][1] : i \in 1..Len(d.items)}
DictHas(d, k) == k \in DictKeys(d)
DictIndex(d, k) == CHOOSE i \in 1..Len(d.items) : d.items[i][1] = k
DictGet(d, k) == d.items[DictIndex(d, k)][2]
\* d[k] = v : a new key is appended, an existing key keeps its position.
DictSet(d, k, v) ==
    IF DictHas(d, k)
    THEN PyDict([d.items EXCEPT ![DictIndex(d, k)] = <<k, v>>])
    ELSE PyDict(Append(d.items, <<k, v>>))
DictLen(d) == Len(d.items)

\* repr(v) and str(v) of a Python value.
RECURSIVE PyRepr(_)
RECURSIVE ReprItems(_)
ReprItems(items) ==
    IF items = <<>> THEN ""
    ELSE "'" \o Head(items)[1] \o "': " \o PyRepr(Head(items)[2])
         \o (IF Len(items) > 1 THEN ", " ELSE "") \o ReprItems(Tail(items))
PyRepr(v) ==
    CASE v.t = "str" -> "'" \o v.s \o "'"
      [] v.t = "num" -> ToString(v.n)
      [] v.t = "None" -> "None"
      [] v.t = "dict" -> "{" \o ReprItems(v.items) \o "}"
      [] v.t = "list" -> "[]"
      [] OTHER -> v.repr
PyToStr(v) == IF v.t = "str" THEN v.s ELSE PyRepr(v)

\* bool(v): None, 0, "" and empty containers are falsy.
PyTruthy(v) ==
    CASE v.t = "None" -> FALSE
      [] v.t = "str" -> v.s # ""
      [] v.t = "num" -> v.n # 0
      [] v.t = "dict" -> Len(v.items) > 0
      [] v.t = "list" -> FALSE
      [] OTHER -> TRUE
PyLen(v) == Len(v.s)
PyEmptyList == [t |-> "list"]

\* c repeated n times.
RECURSIVE Rep(_, _)
Rep(c, n) ==
    IF n = 0 THEN ""
    ELSE LET half == Rep(c, n \div 2)
         IN IF n % 2 = 0 THEN half \o half ELSE half \o half \o c

(***************************************************************************)
(* The extraction service's response (AnalyzeResult).                      *)
(***************************************************************************)
\* A DocumentField: present = FALSE is a falsy entry (None); has_value /
\* has_value_type model hasattr(field_value, ...).
NoField ==
    [present |-> FALSE, has_value |-> FALSE, value |-> PyNone,
     has_value_type |-> FALSE, value_type |-> ""]
Field(hasValue, value, hasType, type) ==
    [present |-> TRUE, has_value |-> hasValue, value |-> value,
     has_value_type |-> hasType, value_type |-> type]

FieldNames == {"Total", "Total_Amount", "Date"}

CurrencyFull == PyObj(TRUE, PyNum(150), TRUE, PyStr("USD"), "$150")
CurrencyNoCode == PyObj(TRUE, PyNum(150), FALSE, PyNone, "$150")
CurrencyNoAmount == PyObj(FALSE, PyNone, TRUE, PyStr("USD"), "USD")
CurrencyNullAmount == PyObj(TRUE, PyNone, TRUE, PyStr("EUR"), "EUR")
DateValue == PyObj(FALSE, PyNone, FALSE, PyNone, "2024-01-05")
AddressValue == PyObj(FALSE, PyNone, FALSE, PyNone, "1 Main St")

FieldSamples ==
    { NoField,
      Field(FALSE, PyNone, TRUE, "string"),
      Field(TRUE, PyNone, TRUE, "currency"),
      Field(TRUE, CurrencyFull, TRUE, "currency"),
      Field(TRUE, CurrencyNoCode, TRUE, "currency"),
      Field(TRUE, CurrencyNoAmount, TRUE, "currency"),
      Field(TRUE, CurrencyNullAmount, TRUE, "currency"),
      Field(TRUE, PyNum(12), TRUE, "currency"),
      Field(TRUE, DateValue, TRUE, "date"),
      Field(TRUE, PyStr("ACME"), TRUE, "string"),
      Field(TRUE, PyNum(7), FALSE, ""),
      Field(TRUE, AddressValue, TRUE, "address") }

\* Field collections: insertion-ordered, names distinct (a Python dict).
RECURSIVE FieldSeqs(_)
FieldSeqs(n) ==
    IF n = 0 THEN {<<>>}
    ELSE LET shorter == FieldSeqs(n - 1)
         IN shorter \cup
            { Append(s, <<k, f>>) :
                s \in {x \in shorter : Len(x) = n - 1},
                k \in FieldNames, f \in FieldSamples }
DistinctNames(s) == \A i, j \in 1..Len(s) : s[i][1] = s[j][1] => i = j
FieldCollections == {s \in FieldSeqs(MaxFields) : DistinctNames(s)}

Doc(fields) == [fields |-> fields]
OtherDoc == Doc(<<<<"Date", Field(TRUE, PyStr("second"), TRUE, "string")>>>>)

\* A key/value pair entry: either side may be missing.
KVPair(hasKey, key, hasValue, value) ==
    [has_key |-> hasKey, key |-> key, has_value |-> hasValue, value |-> value]
KVBoth == KVPair(TRUE, "Vendor", TRUE, "ACME")
KVBoth2 == KVPair(TRUE, "Due", TRUE, "30 days")
KVNoKey == KVPair(FALSE, "", TRUE, "orphan")
KVNoValue == KVPair(TRUE, "Notes", FALSE, "")
KVSamples == { <<>>, <<KVNoKey, KVBoth>>, <<KVBoth, KVNoValue, KVBoth2>> }

Table(rows, cols) == [row_count |-> rows, column_count |-> cols]
TableSamples == { <<>>, <<Table(3, 2), Table(1, 4)>> }

ContentSamples == { PyNone, PyStr(""), PyStr("Invoice 42") }

\* documents: <<>> stands for an absent, None or empty collection (all falsy).
Response(content, documents, pairs, tables) ==
    [content |-> content, documents |-> documents,
     key_value_pairs |-> pairs, tables |-> tables]

DocumentLists ==
    {<<>>} \cup {<<Doc(f)>> : f \in FieldCollections}
           \cup {<<Doc(f), OtherDoc>> : f \in {x \in FieldCollections : Len(x) <= 1}}

Responses ==
    { Response(c, docs, kv, tb) :
        c \in ContentSamples \ {PyNone}, docs \in DocumentLists,
        kv \in KVSamples, tb \in TableSamples }
    \cup { Response(PyNone, <<>>, kv, tb) : kv \in KVSamples, tb \in TableSamples }

(***************************************************************************)
(* process_document_with_azure (src/app.py 255-312).                       *)
(***************************************************************************)
\* Lines 278-280: the top-level text content if present and non-empty.
ExtractRawText(resp) ==
    IF PyTruthy(resp.content) THEN resp.content.s ELSE ""

\* Line 290: the field is kept iff it is truthy, has a value attribute and
\* the value is not None.
FieldKept(fv) ==
    fv.present /\ fv.has_value /\ fv.value.t # "None"

\* Line 293: hasattr(value, 'amount') and hasattr(value, 'currency_code').
HasCurrencyParts(v) ==
    v.t = "obj" /\ v.has_amount /\ v.has_currency_code

\* Mutant of EmitField: a currency field without both parts passes through.
EmitField_CurrencyPassthrough(fv) ==
    IF fv.has_value_type /\ fv.value_type = "currency" /\ HasCurrencyParts(fv.value)
    THEN PyDict(<< <<"value", fv.value.amount>>,
                   <<"currency", fv.value.currency_code>> >>)
    ELSE IF fv.has_value_type /\ fv.value_type = "date"
         THEN PyStr(PyToStr(fv.value))
         ELSE fv.value

\* Lines 291-305: the value stored for a kept field.
EmitField(fv) ==
    IF fv.has_value_type
    THEN IF fv.value_type = "currency"
         THEN IF HasCurrencyParts(fv.value)
              THEN PyDict(<< <<"value", fv.value.amount>>,
                             <<"currency", fv.value.currency_code>> >>)
              ELSE PyStr(PyToStr(fv.value))
         ELSE IF fv.value_type = "date"
              THEN PyStr(PyToStr(fv.value))
              ELSE fv.value
    ELSE fv.value

\* Lines 289-305: the loop over doc.fields.items().
RECURSIVE ExtractFields(_, _)
ExtractFields(fields, acc) ==
    IF fields = <<>> THEN acc
    ELSE LET name == Head(fields)[1]
             fv == Head(fields)[2]
         IN ExtractFields(Tail(fields),
                          IF FieldKept(fv) THEN DictSet(acc, name, EmitField(fv))
                          ELSE acc)

\* Mutant of ExtractStructuredData: key/value pairs are merged in whatever
\* the document fields gave.
RECURSIVE MergePairs(_, _)
MergePairs(pairs, acc) ==
    IF pairs = <<>> THEN acc
    ELSE MergePairs(Tail(pairs),
                    IF Head(pairs).has_key /\ Head(pairs).has_value
                    THEN DictSet(acc, Head(pairs).key, PyStr(Head(pairs).value))
                    ELSE acc)
ExtractStructuredData_MergePairs(resp) ==
    MergePairs(resp.key_value_pairs,
               IF resp.documents # <<>>
               THEN ExtractFields(resp.documents[1].fields, EmptyDict)
               ELSE EmptyDict)

\* Lines 283-305: only result.documents[0].fields is read; key_value_pairs
\* and tables are never consulted.
ExtractStructuredData(resp) ==
    IF resp.documents # <<>> /\ resp.documents[1].fields # <<>>
    THEN ExtractFields(resp.documents[1].fields, EmptyDict)
    ELSE EmptyDict

\* The four-tuple returned at lines 307, 310, 312.  call is the outcome of
\* begin_analyze_document / poller.result(): "ok", "azure_error", "error".
ProcessResult(success, rawText, data, err) ==
    [success |-> success, raw_text |-> rawText, structured_data |-> data,
     error_msg |-> err]
process_document_with_azure(call, resp) ==
    CASE call = "ok" ->
           ProcessResult(TRUE, ExtractRawText(resp), ExtractStructuredData(resp), "")
      [] call = "azure_error" ->
           ProcessResult(FALSE, "", EmptyDict, "Azure API Error")
      [] OTHER ->
           ProcessResult(FALSE, "", EmptyDict, "Processing Error")

CallOutcomes == {"ok", "azure_error", "error"}
NoProcessResult == ProcessResult(FALSE, "", EmptyDict, "not called")

(***************************************************************************)
(* The table document_results (src/app.py 76-86) and json.dumps/json.loads. *)
(***************************************************************************)
\* JSON documents, as json.dumps writes them and json.loads reads them.
JNull == [j |-> "null"]
JNumber(n) == [j |-> "number", n |-> n]
JString(x) == [j |-> "string", s |-> x]
JObject(members) == [j |-> "object", members |-> members]
JArray == [j |-> "array"]
\* Text that is not a JSON document, and the empty text.
JInvalid == [j |-> "invalid"]
JEmptyText == [j |-> "empty"]

\* A cell of the TEXT column structured_data.
SqlNull == [sql |-> "null"]
SqlText(doc) == [sql |-> "text", json |-> doc]

\* json.dumps raises TypeError on an SDK object.
RECURSIVE JsonSerializable(_)
JsonSerializable(v) ==
    CASE v.t = "obj" -> FALSE
      [] v.t = "dict" -> \A i \in 1..Len(v.items) : JsonSerializable(v.items[i][2])
      [] OTHER -> TRUE

RECURSIVE json_dumps(_)
json_dumps(v) ==
    CASE v.t = "None" -> JNull
      [] v.t = "num" -> JNumber(v.n)
      [] v.t = "str" -> JString(v.s)
      [] v.t = "list" -> JArray
      [] OTHER -> JObject([i \in 1..Len(v.items) |->
                             <<v.items[i][1], json_dumps(v.items[i][2])>>])

\* json.loads raises JSONDecodeError on text that is no JSON document.
JsonDecodable(doc) == doc.j \notin {"invalid", "empty"}
RECURSIVE json_loads(_)
json_loads(doc) ==
    CASE doc.j = "null" -> PyNone
      [] doc.j = "number" -> PyNum(doc.n)
      [] doc.j = "string" -> PyStr(doc.s)
      [] doc.j = "array" -> PyEmptyList
      [] OTHER -> PyDict([i \in 1..Len(doc.members) |->
                            <<doc.members[i][1], json_loads(doc.members[i][2])>>])

Row(id, filename, ts, rawText, cell, modelType, fileSize) ==
    [id |-> id, filename |-> filename, upload_timestamp |-> ts,
     raw_text |-> rawText, structured_data |-> cell,
     model_type |-> modelType, file_size |-> fileSize]

\* init_database (lines 69-93): CREATE TABLE IF NOT EXISTS leaves an existing
\* table as it is and creates an empty one the first time.
EmptyTable == <<>>

(***************************************************************************)
(* save_to_database (src/app.py 95-119).                                   *)
(***************************************************************************)
\* The INSERT commits iff the database can be opened and json.dumps did not
\* raise; any exception gives (False, message) and no row.
SaveSucceeds(dbOk, structuredData) ==
    dbOk /\ JsonSerializable(structuredData)

\* Mutant of NextRowId: the counter of AUTOINCREMENT is not advanced.
NextRowId_Reuse(lastId, table) == IF lastId = 0 THEN 1 ELSE lastId

\* id INTEGER PRIMARY KEY AUTOINCREMENT: one more than the largest id ever
\* assigned to the table.
NextRowId(lastId, table) == lastId + 1

\* Mutant of NewRow: filename and raw_text are bound to each other's column.
NewRow_Swapped(lastId, table, now, filename, rawText, structuredData, modelType, fileSize) ==
    Row(NextRowId(lastId, table), rawText, now, PyStr(filename),
        SqlText(json_dumps(structuredData)), modelType, fileSize)

\* Lines 102-113: the inserted row.
NewRow(lastId, table, now, filename, rawText, structuredData, modelType, fileSize) ==
    Row(NextRowId(lastId, table), filename, now, PyStr(rawText),
        SqlText(json_dumps(structuredData)), modelType, fileSize)

(***************************************************************************)
(* get_all_records / get_records_count (src/app.py 121-142).               *)
(***************************************************************************)
\* ORDER BY upload_timestamp DESC.
RECURSIVE InsertDesc(_, _)
InsertDesc(row, sorted) ==
    IF sorted = <<>> THEN <<row>>
    ELSE IF row.upload_timestamp >= Head(sorted).upload_timestamp
         THEN <<row>> \o sorted
         ELSE <<Head(sorted)>> \o InsertDesc(row, Tail(sorted))
RECURSIVE OrderByTimestampDesc(_)
OrderByTimestampDesc(table) ==
    IF table = <<>> THEN <<>>
    ELSE InsertDesc(Head(table), OrderByTimestampDesc(Tail(table)))

\* An unreadable database gives an empty DataFrame.
get_all_records(dbOk, table) ==
    IF dbOk THEN OrderByTimestampDesc(table) ELSE <<>>

\* Mutant of get_records_count: an unreadable database is not reported as 0.
get_records_count_NoFallback(dbOk, table) == Len(table)

get_records_count(dbOk, table) ==
    IF dbOk THEN Len(table) ELSE 0

(***************************************************************************)
(* prepare_csv_export (src/app.py 144-196).                                *)
(***************************************************************************)
PreviewLimit == 500

\* Lines 156-163.
BaseColumns(row) ==
    PyDict(<< <<"ID", PyNum(row.id)>>,
              <<"Filename", PyStr(row.filename)>>,
              <<"Upload_Timestamp", PyNum(row.upload_timestamp)>>,
              <<"Model_Type", PyStr(row.model_type)>>,
              <<"File_Size_Bytes", PyNum(row.file_size)>>,
              <<"Raw_Text_Length",
                PyNum(IF PyTruthy(row.raw_text) THEN PyLen(row.raw_text) ELSE 0)>> >>)

\* Lines 171-179: one item of structured_data.
FlattenValue(exportRow, key, value) ==
    IF value.t = "dict"
    THEN IF DictHas(value, "value") /\ DictHas(value, "currency")
         THEN DictSet(DictSet(exportRow, "Extracted_" \o key \o "_Amount",
                              DictGet(value, "value")),
                      "Extracted_" \o key \o "_Currency", DictGet(value, "currency"))
         ELSE DictSet(exportRow, "Extracted_" \o key, PyStr(PyToStr(value)))
    ELSE DictSet(exportRow, "Extracted_" \o key, value)

\* Line 170: for key, value in structured_data.items().
RECURSIVE FlattenItems(_, _)
FlattenItems(items, exportRow) ==
    IF items = <<>> THEN exportRow
    ELSE FlattenItems(Tail(items),
                      FlattenValue(exportRow, Head(items)[1], Head(items)[2]))

\* Line 167: the cell is decoded only when it is truthy (not NULL, not "").
CellTruthy(cell) == cell.sql = "text" /\ cell.json.j # "empty"
CellDecodes(cell) == ~CellTruthy(cell) \/ JsonDecodable(cell.json)
LoadStructuredData(cell) ==
    IF CellTruthy(cell) THEN json_loads(cell.json) ELSE EmptyDict

\* Lines 166-182 raise something other than JSONDecodeError (AttributeError
\* of .items()) when the decoded document is not a dict.
RowAborts(row) ==
    CellDecodes(row.structured_data)
      /\ LoadStructuredData(row.structured_data).t # "dict"

\* Lines 166-182.
WithStructuredData(exportRow, row) ==
    IF CellDecodes(row.structured_data)
    THEN FlattenItems(LoadStructuredData(row.structured_data).items, exportRow)
    ELSE DictSet(exportRow, "Structured_Data_Error", PyStr("JSON parsing failed"))

\* Mutant of RawTextPreview: the cut is made from 500 characters on.
RawTextPreview_OffByOne(rawText) ==
    IF PyTruthy(rawText)
    THEN IF PyLen(rawText) >= PreviewLimit
         THEN SubSeq(rawText.s, 1, PreviewLimit) \o "..."
         ELSE rawText.s
    ELSE ""

\* Lines 185-188.
RawTextPreview(rawText) ==
    IF PyTruthy(rawText)
    THEN IF PyLen(rawText) > PreviewLimit
         THEN SubSeq(rawText.s, 1, PreviewLimit) \o "..."
         ELSE rawText.s
    ELSE ""

\* Lines 154-190: the export row of one record.
ExportRow(row) ==
    DictSet(WithStructuredData(BaseColumns(row), row),
            "Raw_Text_Preview", PyStr(RawTextPreview(row.raw_text)))

\* The DataFrame built at line 192: its rows are the export_row dicts; a
\* column a row lacks reads as NaN in it.
DataFrame(rows) == [t |-> "DataFrame", rows |-> rows]
NoDataFrame == [t |-> "None", rows |-> <<>>]

\* Lines 146-196: None when there is nothing to read or when any row raises.
prepare_csv_export(dbOk, table) ==
    LET df == get_all_records(dbOk, table)
    IN IF df = <<>> \/ \E i \in 1..Len(df) : RowAborts(df[i])
       THEN NoDataFrame
       ELSE DataFrame([i \in 1..Len(df) |-> ExportRow(df[i])])

(***************************************************************************)
(* Gemini chat and small helpers of the script (src/app.py 199-252).       *)
(***************************************************************************)
\* Lines 199-216: the prompt context; json.dumps(structured_data, indent=2)
\* inside it raises on data that is not serializable.
create_document_context(filename, rawText, structuredData) ==
    [t |-> "context", filename |-> filename, raw_text |-> rawText,
     structured |-> json_dumps(structuredData)]
NoContext == [t |-> "None", filename |-> "", raw_text |-> "", structured |-> JNull]

\* How a call ends: a value returned, or an exception raised to the caller.
Return(v) == [raised |-> FALSE, value |-> v]
Raise(e) == [raised |-> TRUE, value |-> e]

\* Lines 225-229: the prompt is sent; the reply's text, or the exception of
\* generate_content / response.text.
generate_content(outcome, userMessage, documentContext) ==
    IF outcome = "ok"
    THEN Return("Answer about " \o documentContext.filename \o ": " \o userMessage)
    ELSE Raise(outcome)

\* The function without its except clause: the exception reaches the caller.
chat_with_gemini_Propagates(available, outcome, userMessage, documentContext) ==
    IF ~available THEN Return("Gemini AI is not available. Please check your API key.")
    ELSE generate_content(outcome, userMessage, documentContext)

\* Lines 218-232: the reply, or (231-232) the error as the reply.
chat_with_gemini(available, outcome, userMessage, documentContext) ==
    IF ~available THEN Return("Gemini AI is not available. Please check your API key.")
    ELSE LET reply == generate_content(outcome, userMessage, documentContext)
         IN IF reply.raised
            THEN Return("Error generating response: " \o reply.value)
            ELSE reply

\* str.strip() for blanks.
RECURSIVE LStrip(_)
LStrip(x) == IF x # "" /\ SubSeq(x, 1, 1) = " " THEN LStrip(SubSeq(x, 2, Len(x))) ELSE x
RECURSIVE RStrip(_)
RStrip(x) ==
    IF x # "" /\ SubSeq(x, Len(x), Len(x)) = " " THEN RStrip(SubSeq(x, 1, Len(x) - 1)) ELSE x
Strip(x) == RStrip(LStrip(x))

\* Lines 235-241: filename.split('.')[-1] is among the allowed types.
RECURSIVE LastSegment(_, _)
LastSegment(name, i) ==
    IF i = 0 THEN name
    ELSE IF SubSeq(name, i, i) = "." THEN SubSeq(name, i + 1, Len(name))
         ELSE LastSegment(name, i - 1)
AllowedTypes == {"pdf", "jpg", "jpeg", "png"}
NoFile == [name |-> "", size |-> 0]
is_valid_file(file) ==
    file # NoFile /\ LastSegment(file.name, Len(file.name)) \in AllowedTypes

(***************************************************************************)
(* State.                                                                  *)
(***************************************************************************)
VARIABLES
    call,        \* outcome of the last begin_analyze_document / poller.result()
    response,    \* the AnalyzeResult of the last call
    result,      \* what process_document_with_azure returned for it
    document_client,   \* TRUE iff the Azure client was built (lines 29-36)
    gemini_model,      \* TRUE iff the Gemini model was built (lines 39-48)
    uploaded_file,     \* the file in the uploader, or NoFile
    processing_result, \* st.session_state.processing_result
    chat_history,      \* st.session_state.chat_history
    current_document_context, \* st.session_state.current_document_context
    store,       \* the rows of document_results, in insertion order
    seq,         \* AUTOINCREMENT's counter: the largest id ever assigned
    clock,       \* datetime.now(), as a logical clock
    db_ok,       \* TRUE iff sqlite3.connect and the queries succeed
    records_count,     \* the last value get_records_count returned
    shown,       \* what the last script run displayed below the store header
    everSucceeded,     \* history: an extraction has succeeded
    savedSinceAttempt, \* history: a save succeeded since the latest attempt
    savedSinceSuccess, \* history: a save succeeded since the latest success
    nSaved,      \* history: number of successful saves
    answeredAgainst,   \* history: the context each pair of chat_history was asked with
    countDbOk    \* history: db_ok at the last get_records_count call

serviceVars == <<call, response, result>>
envVars == <<document_client, gemini_model>>
sessionVars == <<processing_result, chat_history, current_document_context>>
storeVars == <<store, seq, clock>>
historyVars == <<everSucceeded, savedSinceAttempt, savedSinceSuccess, nSaved>>
vars == <<call, response, result, document_client, gemini_model, uploaded_file,
          processing_result, chat_history, current_document_context,
          store, seq, clock, db_ok, records_count, shown,
          everSucceeded, savedSinceAttempt, savedSinceSuccess, nSaved,
          answeredAgainst, countDbOk>>

EmptyResponse == Response(PyNone, <<>>, <<>>, <<>>)
NoResult ==
    [t |-> "None", filename |-> "", raw_text |-> "", structured_data |-> EmptyDict,
     model_type |-> "", file_size |-> 0]
NothingShown == [kind |-> "none", df |-> NoDataFrame]

\* Lines 61-66 and an empty database.
FreshSession ==
    /\ processing_result = NoResult
    /\ chat_history = <<>>
    /\ current_document_context = NoContext
    /\ uploaded_file = NoFile
    /\ shown = NothingShown
    /\ everSucceeded = FALSE /\ savedSinceAttempt = FALSE
    /\ savedSinceSuccess = FALSE /\ nSaved = 0
    /\ answeredAgainst = <<>>

NoServiceCall ==
    /\ call = "ok" /\ response = EmptyResponse /\ result = NoProcessResult

(***************************************************************************)
(* Normalisation alone: the service answers, the function is applied.      *)
(***************************************************************************)
InitNormalize ==
    /\ \/ call = "ok" /\ response \in Responses
       \/ call \in CallOutcomes \ {"ok"} /\ response = EmptyResponse
    /\ result = NoProcessResult
    /\ document_client = TRUE /\ gemini_model = TRUE
    /\ FreshSession
    /\ store = <<>> /\ seq = 0 /\ clock = 1 /\ db_ok = TRUE
    /\ records_count = 0 /\ countDbOk = TRUE

Analyze ==
    /\ result = NoProcessResult
    /\ result' = process_document_with_azure(call, response)
    /\ UNCHANGED <<call, response, envVars, uploaded_file, sessionVars, storeVars,
                   db_ok, records_count, shown, historyVars, answeredAgainst,
                   countDbOk>>

NextNormalize == Analyze

SpecNormalize == InitNormalize /\ [][NextNormalize]_vars

(***************************************************************************)
(* The export button (src/app.py 498-543).                                 *)
(***************************************************************************)
\* The buttons are rendered only when the count of this run is positive.
ExportCsv ==
    /\ records_count > 0
    /\ get_records_count(db_ok, store) > 0
    /\ shown' = [kind |-> "export", df |-> prepare_csv_export(db_ok, store)]
    /\ records_count' = get_records_count(db_ok, store)
    /\ countDbOk' = db_ok
    /\ UNCHANGED <<serviceVars, envVars, uploaded_file, sessionVars, storeVars,
                   db_ok, historyVars, answeredAgainst>>

(***************************************************************************)
(* The script's handlers (src/app.py 352-543).  Every interaction reruns   *)
(* the script, which ends with get_records_count() at line 498.            *)
(***************************************************************************)
Files == { [name |-> "inv.pdf", size |-> 1024], [name |-> "scan.png", size |-> 2048] }
\* The selectbox (lines 340-344); the choice is only recorded with the result.
ModelTypes == {"Invoice"}
Questions == {"  ", "Total?"}
GeminiOutcomes == {"ok", "quota exceeded"}

InvoiceResponse ==
    Response(PyStr("Invoice 42"),
             <<Doc(<< <<"Total", Field(TRUE, CurrencyFull, TRUE, "currency")>> >>)>>,
             <<>>, <<>>)
AddressResponse ==
    Response(PyStr("Invoice 42"),
             <<Doc(<< <<"Date", Field(TRUE, AddressValue, TRUE, "address")>> >>)>>,
             <<>>, <<>>)
SessionResponses == {InvoiceResponse, AddressResponse}

\* The tail of every script run: line 498.
Rerun(table) ==
    /\ records_count' = get_records_count(db_ok, table)
    /\ countDbOk' = db_ok

\* The file uploader (lines 346-350).
Upload(file) ==
    /\ file # uploaded_file
    /\ uploaded_file' = file
    /\ shown' = NothingShown
    /\ Rerun(store)
    /\ UNCHANGED <<serviceVars, envVars, sessionVars, storeVars, db_ok, historyVars,
                   answeredAgainst>>

\* Lines 370-371, 422-423: the process button without an Azure client.
ProcessNoClient ==
    /\ is_valid_file(uploaded_file)
    /\ ~document_client
    /\ shown' = NothingShown
    /\ Rerun(store)
    /\ UNCHANGED <<serviceVars, envVars, uploaded_file, sessionVars, storeVars,
                   db_ok, historyVars, answeredAgainst>>

NewResult(file, res, modelType) ==
    [t |-> "result", filename |-> file.name, raw_text |-> res.raw_text,
     structured_data |-> res.structured_data, model_type |-> modelType,
     file_size |-> file.size]

\* Lines 370-421: the process button.  On success processing_result is set
\* (381); create_document_context (390) raises when json.dumps cannot
\* serialize the data, which ends the run before 390 assigns and before 395.
ProcessDocument(modelType, outcome, resp) ==
    /\ is_valid_file(uploaded_file)
    /\ document_client
    /\ LET res == process_document_with_azure(outcome, resp)
       IN IF res.success
          THEN /\ processing_result' = NewResult(uploaded_file, res, modelType)
               /\ IF JsonSerializable(res.structured_data)
                  THEN /\ current_document_context' =
                            create_document_context(uploaded_file.name, res.raw_text,
                                                    res.structured_data)
                       /\ chat_history' = <<>>
                       /\ answeredAgainst' = <<>>
                  ELSE UNCHANGED <<current_document_context, chat_history,
                                   answeredAgainst>>
               /\ everSucceeded' = TRUE
               /\ savedSinceSuccess' = FALSE
          ELSE UNCHANGED <<sessionVars, everSucceeded, savedSinceSuccess,
                           answeredAgainst>>
    /\ savedSinceAttempt' = FALSE
    /\ shown' = NothingShown
    /\ Rerun(store)
    /\ UNCHANGED <<serviceVars, envVars, uploaded_file, storeVars, db_ok, nSaved>>

\* Lines 447-459: the ask button.  An exception out of line 451 would end
\* the run before the append of line 454.
Ask(question, outcome) ==
    /\ current_document_context # NoContext
    /\ gemini_model
    /\ LET reply == chat_with_gemini(gemini_model, outcome, question,
                                     current_document_context)
       IN IF Strip(question) # "" /\ ~reply.raised
          THEN /\ Len(chat_history) < MaxChat
               /\ chat_history' = Append(chat_history, <<question, reply.value>>)
               /\ answeredAgainst' = Append(answeredAgainst, current_document_context)
          ELSE UNCHANGED <<chat_history, answeredAgainst>>
    /\ shown' = NothingShown
    /\ Rerun(store)
    /\ UNCHANGED <<serviceVars, envVars, uploaded_file, processing_result,
                   current_document_context, storeVars, db_ok, historyVars>>

\* Lines 461-464: the clear button.
ClearChat ==
    /\ current_document_context # NoContext
    /\ gemini_model
    /\ chat_history' = <<>>
    /\ answeredAgainst' = <<>>
    /\ shown' = NothingShown
    /\ Rerun(store)
    /\ UNCHANGED <<serviceVars, envVars, uploaded_file, processing_result,
                   current_document_context, storeVars, db_ok, historyVars>>

\* Lines 467-490: the save button.
SaveResult ==
    /\ processing_result # NoResult
    /\ IF SaveSucceeds(db_ok, processing_result.structured_data)
       THEN /\ Len(store) < MaxRecords
            /\ LET row == NewRow(seq, store, clock, processing_result.filename,
                                 processing_result.raw_text,
                                 processing_result.structured_data,
                                 processing_result.model_type,
                                 processing_result.file_size)
               IN /\ store' = Append(store, row)
                  /\ seq' = row.id
                  /\ Rerun(Append(store, row))
            /\ clock' = clock + 1
            /\ processing_result' = NoResult
            /\ nSaved' = nSaved + 1
            /\ savedSinceAttempt' = TRUE
            /\ savedSinceSuccess' = TRUE
       ELSE /\ Rerun(store)
            /\ UNCHANGED <<processing_result, storeVars, nSaved, savedSinceAttempt,
                           savedSinceSuccess>>
    /\ shown' = NothingShown
    /\ UNCHANGED <<serviceVars, envVars, uploaded_file, chat_history,
                   current_document_context, db_ok, everSucceeded, answeredAgainst>>

\* Lines 506-513: the table shown by the view button.
DisplayRow(row) ==
    PyDict(<< <<"id", PyNum(row.id)>>, <<"filename", PyStr(row.filename)>>,
              <<"upload_timestamp", PyNum(row.upload_timestamp)>>,
              <<"model_type", PyStr(row.model_type)>>,
              <<"file_size", PyStr(ToString(row.file_size) \o " bytes")>> >>)
ViewRecords ==
    /\ records_count > 0
    /\ get_records_count(db_ok, store) > 0
    /\ LET df == get_all_records(db_ok, store)
       IN shown' = [kind |-> "view",
                    df |-> DataFrame([i \in 1..Len(df) |-> DisplayRow(df[i])])]
    /\ Rerun(store)
    /\ UNCHANGED <<serviceVars, envVars, uploaded_file, sessionVars, storeVars,
                   db_ok, historyVars, answeredAgainst>>

\* The database file becomes unreadable, or readable again.
ToggleDatabase ==
    /\ db_ok' = ~db_ok
    /\ UNCHANGED <<serviceVars, envVars, uploaded_file, sessionVars, storeVars,
                   records_count, shown, historyVars, answeredAgainst,
                   countDbOk>>

Init ==
    /\ NoServiceCall
    /\ document_client \in BOOLEAN /\ gemini_model \in BOOLEAN
    /\ FreshSession
    /\ store = EmptyTable /\ seq = 0 /\ clock = 1
    /\ db_ok = TRUE
    /\ records_count = get_records_count(db_ok, store) /\ countDbOk = TRUE

Next ==
    \/ \E file \in Files \cup {NoFile} : Upload(file)
    \/ ProcessNoClient
    \/ \E modelType \in ModelTypes, resp \in SessionResponses :
         ProcessDocument(modelType, "ok", resp)
    \/ \E modelType \in ModelTypes, outcome \in CallOutcomes \ {"ok"} :
         ProcessDocument(modelType, outcome, EmptyResponse)
    \/ \E question \in Questions, outcome \in GeminiOutcomes : Ask(question, outcome)
    \/ ClearChat
    \/ SaveResult
    \/ ViewRecords
    \/ ExportCsv
    \/ ToggleDatabase

Spec == Init /\ [][Next]_vars

(***************************************************************************)
(* Export alone: any content of the table, then one export.                *)
(***************************************************************************)
StoredNames == {"Total", "Total_Amount"}
StoredValues ==
    { PyDict(<< <<"value", PyNum(150)>>, <<"currency", PyStr("USD")>> >>),
      PyDict(<< <<"value", PyNum(3)>> >>),
      PyNum(7),
      PyStr("ACME") }
\* The mappings save_to_database may have written: distinct keys, any order.
StoredMaps ==
    {EmptyDict}
    \cup {PyDict(<< <<k, v>> >>) : k \in StoredNames, v \in StoredValues}
    \cup {PyDict(<< <<ks[1], v1>>, <<ks[2], v2>> >>) :
            ks \in {x \in StoredNames \X StoredNames : x[1] # x[2]},
            v1 \in StoredValues, v2 \in StoredValues}
CellSamples ==
    {SqlNull, SqlText(JEmptyText), SqlText(JInvalid), SqlText(JArray)}
    \cup {SqlText(json_dumps(m)) : m \in StoredMaps}
RawSamples ==
    { PyNone, PyStr(""), PyStr("Invoice 42"),
      PyStr(Rep("a", PreviewLimit - 1)), PyStr(Rep("a", PreviewLimit)),
      PyStr(Rep("a", PreviewLimit) \o "b"), PyStr(Rep("ab", PreviewLimit)) }
RowSamples ==
    {<<PyStr("Invoice 42"), c>> : c \in CellSamples}
    \cup {<<r, SqlText(json_dumps(EmptyDict))>> : r \in RawSamples}

RECURSIVE Tables(_)
Tables(n) ==
    IF n = 0 THEN {<<>>}
    ELSE LET shorter == Tables(n - 1)
         IN shorter \cup
            { Append(t, Row(n, "inv.pdf", n, rs[1], rs[2], "Invoice", 1024)) :
                t \in {x \in shorter : Len(x) = n - 1}, rs \in RowSamples }

InitExport ==
    /\ NoServiceCall
    /\ document_client = TRUE /\ gemini_model = TRUE
    /\ FreshSession
    /\ store \in Tables(MaxRecords)
    /\ seq = Len(store) /\ clock = Len(store) + 1
    /\ db_ok = TRUE
    /\ records_count = get_records_count(db_ok, store) /\ countDbOk = TRUE

NextExport == shown = NothingShown /\ ExportCsv

SpecExport == InitExport /\ [][NextExport]_vars

(***************************************************************************)
(* Claims about process_document_with_azure, under SpecNormalize.          *)
(***************************************************************************)
Analyzed == result # NoProcessResult
FirstDocFields == IF response.documents = <<>> THEN <<>> ELSE response.documents[1].fields
ValueIsNull(fv) == ~fv.present \/ ~fv.has_value \/ fv.value = PyNone
NonNullFieldNames == {FirstDocFields[i][1] : i \in {j \in 1..Len(FirstDocFields) : ~ValueIsNull(FirstDocFields[j][2])}}
FieldNamed(name) == FirstDocFields[CHOOSE i \in 1..Len(FirstDocFields) : FirstDocFields[i][1] = name][2]
CompletePairs == {i \in 1..Len(response.key_value_pairs) : response.key_value_pairs[i].has_key /\ response.key_value_pairs[i].has_value}

\* C1: when stage 1 yields no fields and the response has key/value pairs,
\* the returned mapping holds exactly one scalar entry per pair that has
\* both a key and a value, and nothing for a pair missing either side.
C1_PairsBecomeFields ==
    (Analyzed /\ call = "ok" /\ NonNullFieldNames = {} /\ response.key_value_pairs # <<>>)
    => /\ result.success
       /\ \A i \in CompletePairs :
            /\ DictHas(result.structured_data, response.key_value_pairs[i].key)
            /\ DictGet(result.structured_data, response.key_value_pairs[i].key)
                 = PyStr(response.key_value_pairs[i].value)
       /\ DictKeys(result.structured_data)
            = {response.key_value_pairs[i].key : i \in CompletePairs}

\* C2: when stages 1 and 2 yield no fields and the response has N >= 1
\* tables, the returned mapping has exactly 2*N entries.
C2_TwoFieldsPerTable ==
    (Analyzed /\ call = "ok" /\ NonNullFieldNames = {} /\ CompletePairs = {}
       /\ Len(response.tables) >= 1)
    => /\ result.success
       /\ DictLen(result.structured_data) = 2 * Len(response.tables)

\* C3: when the first recognized document has a non-empty field collection,
\* the keys of the returned mapping are exactly the names of that document's
\* fields whose value is not null, and the mapping is the same whatever
\* key/value pairs and tables the response carries.
C3_Stage1Only ==
    (Analyzed /\ call = "ok" /\ FirstDocFields # <<>>)
    => /\ result.success
       /\ DictKeys(result.structured_data) = NonNullFieldNames
       /\ DictLen(result.structured_data) = Cardinality(NonNullFieldNames)
       /\ \A kv \in KVSamples, tb \in TableSamples :
            process_document_with_azure(call,
                [response EXCEPT !.key_value_pairs = kv, !.tables = tb]).structured_data
              = result.structured_data

C3_Witness ==
    /\ Analyzed /\ call = "ok"
    /\ Len(FirstDocFields) = 2
    /\ Cardinality(NonNullFieldNames) = 1
    /\ CompletePairs # {}
    /\ response.tables # <<>>
    /\ DictLen(result.structured_data) = 1

IsCurrencyTagged(fv) == fv.has_value_type /\ fv.value_type = "currency"
HasAmountAndCode(v) == v.t = "obj" /\ v.has_amount /\ v.has_currency_code

\* C4: every non-null field tagged currency is emitted as the pair
\* {value: amount, currency: currency_code} when its value has both parts,
\* and otherwise as the text rendering of its value; the extraction
\* succeeds, and no currency-tagged field is emitted as a bare number.
C4_CurrencyPairOrText ==
    (Analyzed /\ call = "ok")
    => /\ result.success
       /\ \A name \in NonNullFieldNames :
            LET fv == FieldNamed(name)
                out == DictGet(result.structured_data, name)
            IN IsCurrencyTagged(fv) =>
                 /\ DictHas(result.structured_data, name)
                 /\ IF HasAmountAndCode(fv.value)
                    THEN /\ out.t = "dict"
                         /\ DictKeys(out) = {"value", "currency"}
                         /\ DictGet(out, "value") = fv.value.amount
                         /\ DictGet(out, "currency") = fv.value.currency_code
                    ELSE out = PyStr(PyToStr(fv.value))
                 /\ out.t # "num"

C4_Witness ==
    /\ Analyzed /\ call = "ok" /\ result.success
    /\ \E a, b \in NonNullFieldNames :
         /\ IsCurrencyTagged(FieldNamed(a)) /\ HasAmountAndCode(FieldNamed(a).value)
         /\ DictGet(result.structured_data, a).t = "dict"
         /\ IsCurrencyTagged(FieldNamed(b)) /\ FieldNamed(b).value = PyNum(12)
         /\ DictGet(result.structured_data, b) = PyStr("12")

(***************************************************************************)
(* Claims about prepare_csv_export, under SpecExport.                      *)
(***************************************************************************)
Exported == shown.kind = "export"
ExportedRows == shown.df.rows
\* Row i of the export belongs to record i of the listing.
Listing == OrderByTimestampDesc(store)
IsMappingCell(cell) == cell.sql = "text" /\ cell.json.j = "object"
SavedFields(rec) == json_loads(rec.structured_data.json)
IsCurrencyPair(v) == v.t = "dict" /\ DictHas(v, "value") /\ DictHas(v, "currency")
ExtractedColumns(row) == {c \in DictKeys(row) : Len(c) >= 10 /\ SubSeq(c, 1, 10) = "Extracted_"}
ColumnIs(row, col, v) == DictHas(row, col) /\ DictGet(row, col) = v

\* The columns field k with value v is to give.
ClaimedColumns(k, v) ==
    IF IsCurrencyPair(v)
    THEN {"Extracted_" \o k \o "_Amount", "Extracted_" \o k \o "_Currency"}
    ELSE {"Extracted_" \o k}

\* C5: a field k saved as a currency pair (a, c) gives Extracted_k_Amount = a
\* and Extracted_k_Currency = c and no column Extracted_k; any other field
\* gives the one column Extracted_k, and no further Extracted_ column exists.
C5_CurrencySplit ==
    (Exported /\ shown.df.t = "DataFrame")
    => \A i \in 1..Len(Listing) :
         IsMappingCell(Listing[i].structured_data) =>
           LET fields == SavedFields(Listing[i])
               row == ExportedRows[i]
           IN /\ \A k \in DictKeys(fields) :
                   LET v == DictGet(fields, k)
                   IN IF IsCurrencyPair(v)
                      THEN /\ ColumnIs(row, "Extracted_" \o k \o "_Amount", DictGet(v, "value"))
                           /\ ColumnIs(row, "Extracted_" \o k \o "_Currency", DictGet(v, "currency"))
                           /\ ~DictHas(row, "Extracted_" \o k)
                      ELSE DictHas(row, "Extracted_" \o k)
              /\ ExtractedColumns(row)
                   = UNION {ClaimedColumns(k, DictGet(fields, k)) : k \in DictKeys(fields)}

\* A blob that does not decode into a field mapping: text that is no JSON
\* document, or a JSON document that is not an object.
IsBadCell(cell) == cell.sql = "text" /\ cell.json.j \in {"invalid", "array", "null", "number", "string"}
BadRecords == {i \in 1..Len(store) : IsBadCell(store[i].structured_data)}
WithoutRecord(i) == SelectSeq(store, LAMBDA r : r.id # store[i].id)

\* C6: with one undecodable record in the table the export still has one
\* row per record; the bad record's row has the sentinel column and no
\* Extracted_* column, the other rows are what they are without it.
C6_BadRecordIsolated ==
    (Exported /\ Cardinality(BadRecords) = 1)
    => LET bad == CHOOSE i \in BadRecords : TRUE
           others == prepare_csv_export(db_ok, WithoutRecord(bad)).rows
       IN /\ shown.df.t = "DataFrame"
          /\ Len(ExportedRows) = Len(store)
          /\ \A i \in 1..Len(Listing) :
               IF Listing[i].id = store[bad].id
               THEN /\ DictHas(ExportedRows[i], "Structured_Data_Error")
                    /\ ExtractedColumns(ExportedRows[i]) = {}
               ELSE \E j \in 1..Len(others) : others[j] = ExportedRows[i]

\* C7: Raw_Text_Preview is the whole raw text when it has at most 500
\* characters (empty when the text is empty or absent, with
\* Raw_Text_Length = 0), and the first 500 characters followed by "..."
\* when it has 501 or more.
C7_RawTextPreview ==
    (Exported /\ shown.df.t = "DataFrame")
    => /\ Len(ExportedRows) = Len(Listing)
       /\ \A i \in 1..Len(Listing) :
            LET raw == Listing[i].raw_text
                row == ExportedRows[i]
            IN /\ DictHas(row, "Raw_Text_Preview") /\ DictHas(row, "Raw_Text_Length")
               /\ IF raw = PyNone \/ raw = PyStr("")
                  THEN /\ DictGet(row, "Raw_Text_Preview") = PyStr("")
                       /\ DictGet(row, "Raw_Text_Length") = PyNum(0)
                  ELSE IF Len(raw.s) <= 500
                  THEN DictGet(row, "Raw_Text_Preview") = raw
                  ELSE /\ Len(raw.s) >= 501
                       /\ DictGet(row, "Raw_Text_Preview")
                            = PyStr(SubSeq(raw.s, 1, 500) \o "...")
                       /\ Len(DictGet(row, "Raw_Text_Preview").s) = 503

C7_Witness ==
    /\ Exported /\ shown.df.t = "DataFrame"
    /\ \E i, j \in 1..Len(Listing) :
         /\ Listing[i].raw_text # PyNone /\ Len(Listing[i].raw_text.s) = 500
         /\ DictGet(ExportedRows[i], "Raw_Text_Preview") = Listing[i].raw_text
         /\ Listing[j].raw_text # PyNone /\ Len(Listing[j].raw_text.s) = 501
         /\ Len(DictGet(ExportedRows[j], "Raw_Text_Preview").s) = 503

(***************************************************************************)
(* Claims about the session and the store, under Spec.                     *)
(***************************************************************************)
Held == processing_result # NoResult
LastRow(table) == table[Len(table)]

\* C8: the store is append-only over every action: stored records are never
\* changed or removed, a successful save adds exactly one record whose id
\* is greater than every id assigned before, and every other step (a failed
\* save included) leaves the store unchanged.
C8_AppendOnly ==
    [][ /\ Len(store') >= Len(store)
        /\ \A i \in 1..Len(store) : store'[i] = store[i]
        /\ IF nSaved' = nSaved + 1
           THEN /\ Len(store') = Len(store) + 1
                /\ LastRow(store').id > seq
                /\ \A i \in 1..Len(store) : LastRow(store').id > store[i].id
           ELSE nSaved' = nSaved /\ store' = store ]_vars

C8_Witness ==
    /\ Len(store) = 2 /\ nSaved = 2
    /\ store[1].id < store[2].id

\* C9 as stated: the transient record is held iff an extraction has
\* succeeded and no save has succeeded since the latest extraction attempt.
C9_HeldSinceLatestAttempt ==
    Held <=> (everSucceeded /\ ~savedSinceAttempt)

\* C9 as amended: the transient record is held iff an extraction has
\* succeeded and no save has succeeded since the latest successful
\* extraction (a failed attempt leaves it as it was); a successful save
\* happens only while a record is held, appends exactly that record
\* (filename, raw text, fields, model type, file size) and discards it.
C9_Lifecycle ==
    /\ [](Held <=> (everSucceeded /\ ~savedSinceSuccess))
    /\ [][ nSaved' # nSaved =>
             /\ Held
             /\ ~Held'
             /\ store' = Append(store, LastRow(store'))
             /\ LastRow(store').filename = processing_result.filename
             /\ LastRow(store').raw_text = PyStr(processing_result.raw_text)
             /\ IsMappingCell(LastRow(store').structured_data)
             /\ SavedFields(LastRow(store')) = processing_result.structured_data
             /\ LastRow(store').model_type = processing_result.model_type
             /\ LastRow(store').file_size = processing_result.file_size ]_vars

\* A failed attempt after a save: nothing is held although no save has
\* succeeded since that attempt.
C9_Witness ==
    /\ ~Held /\ everSucceeded /\ savedSinceSuccess /\ ~savedSinceAttempt
    /\ nSaved = 1 /\ Len(store) = 1

\* C10 as stated: two calls of get_records_count with no successful save in
\* between return the same value, whatever happens to the store's
\* reachability between them.
C10_CountUnchangedWithoutSave ==
    [][ nSaved' = nSaved => records_count' = records_count ]_vars

\* C10 as amended: a call returns the number of successful saves when the
\* store is reachable and 0 when it is not, so two calls with no successful
\* save in between agree when the store is reachable at both or at neither.
C10_CountStable ==
    /\ [](records_count = IF countDbOk THEN nSaved ELSE 0)
    /\ [][ (nSaved' = nSaved /\ countDbOk' = countDbOk)
             => records_count' = records_count ]_vars

C10_Witness ==
    /\ nSaved = 2 /\ Len(store) = 2
    /\ ~countDbOk /\ records_count = 0

(***************************************************************************)
(* Claims about the chat, under Spec.                                      *)
(***************************************************************************)
ErrorReply(outcome) == "Error generating response: " \o outcome
UnavailableReply == "Gemini AI is not available. Please check your API key."
LastPair(history) == history[Len(history)]

\* C11: a failing conversational call never interrupts the conversation:
\* chat_with_gemini never raises and always returns a text, which is the
\* error message when the call fails and the unavailability message when
\* there is no model; every Ask with a non-blank question appends exactly
\* one (question, response) pair to chat_history and leaves the earlier
\* pairs, the document context, the transient record and the store as they
\* were; a blank question appends nothing.
C11_ChatNeverInterrupted ==
    /\ [](\A available \in BOOLEAN, outcome \in GeminiOutcomes, question \in Questions :
            LET reply == chat_with_gemini(available, outcome, question,
                                          current_document_context)
            IN /\ ~reply.raised
               /\ ~available => reply.value = UnavailableReply
               /\ (available /\ outcome # "ok") => reply.value = ErrorReply(outcome))
    /\ [][ \A question \in Questions, outcome \in GeminiOutcomes :
             Ask(question, outcome) =>
               /\ IF Strip(question) # ""
                  THEN /\ Len(chat_history') = Len(chat_history) + 1
                       /\ SubSeq(chat_history', 1, Len(chat_history)) = chat_history
                       /\ LastPair(chat_history')[1] = question
                       /\ outcome # "ok" => LastPair(chat_history')[2] = ErrorReply(outcome)
                  ELSE chat_history' = chat_history
               /\ current_document_context' = current_document_context
               /\ processing_result' = processing_result
               /\ store' = store ]_vars

\* A failed call's message is in the history and the next question was
\* asked and answered after it.
C11_Witness ==
    /\ Len(chat_history) = 2
    /\ chat_history[1] = <<"Total?", ErrorReply("quota exceeded")>>
    /\ chat_history[2][1] = "Total?"
    /\ chat_history[2][2] # ErrorReply("quota exceeded")
    /\ processing_result # NoResult

\* The steps of the process button: the service call succeeded, or failed.
SuccessfulExtraction ==
    \E modelType \in ModelTypes, resp \in SessionResponses :
        ProcessDocument(modelType, "ok", resp)
FailedExtraction ==
    \E modelType \in ModelTypes, outcome \in CallOutcomes \ {"ok"} :
        ProcessDocument(modelType, outcome, EmptyResponse)
AnsweredAgainstCurrent ==
    /\ Len(answeredAgainst) = Len(chat_history)
    /\ \A i \in 1..Len(answeredAgainst) : answeredAgainst[i] = current_document_context

\* C12: in every reachable state every (question, answer) pair of
\* chat_history was answered against the current document context; the
\* context changes only on a successful extraction, and a successful
\* extraction empties chat_history in the same step; a failed extraction, a
\* save (successful or not), view and export leave the context and
\* chat_history unchanged.
C12_ChatFollowsContext ==
    /\ []AnsweredAgainstCurrent
    /\ [][ /\ current_document_context' # current_document_context
               => SuccessfulExtraction
           /\ SuccessfulExtraction => chat_history' = <<>>
           /\ (FailedExtraction \/ SaveResult \/ ViewRecords \/ ExportCsv)
               => /\ current_document_context' = current_document_context
                  /\ chat_history' = chat_history ]_vars

====
